---- MODULE Spec2Model ----
(***************************************************************************)
(* Model of the A* search node of Modules/TrajectoryPlanners/Astar         *)
(* (Node.cpp): node construction, the planar distance and goal test, the   *)
(* child list, successor generation into a node list, and the cost         *)
(* ordering.                                                               *)
(*                                                                         *)
(* Representation.                                                         *)
(*  - nodeList is the std::list<Node> that GenerateChildren appends to.    *)
(*    Elements of a std::list never move, so the address of an element is  *)
(*    modelled by its position (1-based); NULL is 0.  The root is the      *)
(*    first element.                                                       *)
(*  - A Node is a record; children is a sequence of Node records because   *)
(*    std::list<Node> holds copies (AddChild takes its argument by value). *)
(*  - doubles are modelled by integers.  Headings are restricted to        *)
(*    multiples of 90 degrees, where sin and cos are evaluated exactly.    *)
(*  - The heading grid, the vertical-speed grid and dt are the planner's   *)
(*    configuration: config is drawn once and every GenerateChildren call  *)
(*    of the run receives it.                                              *)
(*  - Node::Node never stores its index argument, so the index member of a *)
(*    constructed node is an indeterminate int: it is an extra argument of *)
(*    Node, chosen from Garbage by every caller.                           *)
(*  - Node::AddChild has no return statement after push_back; the value    *)
(*    the caller then receives is indeterminate and is an extra argument   *)
(*    of AddChild, chosen from BOOLEAN by every caller.                    *)
(***************************************************************************)
EXTENDS Integers, Sequences, FiniteSets, TLC

VARIABLES nodeList, config, last

vars == <<nodeList, config, last>>

(* ------------------------------ bounds --------------------------------- *)

\* most nodes the list may hold
MaxNodes == 5
\* most nodes the list may hold while children are being linked
MaxFamily == 2
\* longest heading / vertical-speed grid
MaxLen == 2

NULL == 0
\* values an indeterminate int may have
Garbage == {0, 1}
\* costs the search driver assigns
Costs == {0, 1}
HeadingOffsets == {0, 90}
VspeedOffsets == {0, 2}
Dts == {1}
Coords == {0, 1}
GoalXs == {0, 3, 4, 5, 6}
GoalYs == {0, 3, 4}
Alts == {0, 9}

\* all sequences over S of length at most n
SeqsUpTo(S, n) == UNION {[1 .. k -> S] : k \in 0 .. n}

(* ------------------------------ helpers -------------------------------- *)

\* sin of an angle in degrees, on multiples of 90
SinDeg(a) ==
    CASE a % 360 = 0 -> 0
      [] a % 360 = 90 -> 1
      [] a % 360 = 180 -> 0
      [] a % 360 = 270 -> -1

\* cos of an angle in degrees, on multiples of 90
CosDeg(a) ==
    CASE a % 360 = 0 -> 1
      [] a % 360 = 90 -> 0
      [] a % 360 = 180 -> -1
      [] a % 360 = 270 -> 0

(* ------------------------------- Node ---------------------------------- *)

\* Node::Node(_parent, index, xl, yl, zl, psil, vsl, speedl).  The index
\* argument is never stored; the member keeps the indeterminate value junk.
Node(_parent, index, xl, yl, zl, psil, vsl, speedl, junk) ==
    [parent |-> _parent, index |-> junk,
     x |-> xl, y |-> yl, z |-> zl,
     vx |-> 0, vy |-> 0, vz |-> 0,
     psi |-> psil, vs |-> vsl, speed |-> speedl,
     g |-> 0, h |-> 0, neighborhood |-> 5,
     children |-> <<>>]

\* The radicand of Node::NodeDist: pow(x-B.x,2) + pow(y-B.y,2).
NodeDistSq(A, B) == (A.x - B.x) * (A.x - B.x) + (A.y - B.y) * (A.y - B.y)

GoalCheck_le(A, goal) ==
    NodeDistSq(A, goal) <= A.neighborhood * A.neighborhood

\* Node::GoalCheck: sqrt(radicand) < neighborhood.  Both sides are
\* non-negative, so the comparison is made on the squares.
GoalCheck(A, goal) ==
    NodeDistSq(A, goal) < A.neighborhood * A.neighborhood

AddChild_noScan(this, child, undef) ==
    [node |-> [this EXCEPT !.children = Append(@, child)], ret |-> undef]

\* Node::AddChild: the node after the call and the value returned.  After
\* push_back control reaches the end of the function without a return.
AddChild(this, child, undef) ==
    IF \E k \in 1 .. Len(this.children) : this.children[k].index = child.index
    THEN [node |-> this, ret |-> FALSE]
    ELSE [node |-> [this EXCEPT !.children = Append(@, child)], ret |-> undef]

Child_cost(this, thisAddr, totalNodes, dpsi, dvs, dt, junk) ==
    LET c == Node(thisAddr, totalNodes,
                  this.x + this.speed * SinDeg(dpsi + this.psi) * dt,
                  this.y + this.speed * CosDeg(dpsi + this.psi) * dt,
                  this.z + this.vs * dt,
                  this.psi + dpsi, this.vs, 2, junk)
        d == [c EXCEPT !.g = this.g + this.speed * dt]
    IN  AddChild(d, d, FALSE).node

Child_orphan(this, thisAddr, totalNodes, dpsi, dvs, dt, junk) ==
    LET c == Node(NULL, totalNodes,
                  this.x + this.speed * SinDeg(dpsi + this.psi) * dt,
                  this.y + this.speed * CosDeg(dpsi + this.psi) * dt,
                  this.z + this.vs * dt,
                  this.psi + dpsi, this.vs, 2, junk)
    IN  AddChild(c, c, FALSE).node

\* Body of the inner loop of Node::GenerateChildren up to the push_back:
\* the node _child that is appended.  dvs is read from the grid and not
\* used; _child.AddChild(_child) puts a copy of _child into its own
\* children and its result is discarded.
Child(this, thisAddr, totalNodes, dpsi, dvs, dt, junk) ==
    LET xnew == this.x + this.speed * SinDeg(dpsi + this.psi) * dt
        ynew == this.y + this.speed * CosDeg(dpsi + this.psi) * dt
        znew == this.z + this.vs * dt
        _child == Node(thisAddr, totalNodes, xnew, ynew, znew,
                       this.psi + dpsi, this.vs, 2, junk)
    IN  AddChild(_child, _child, FALSE).node

RECURSIVE GenLoop(_, _, _, _, _, _, _, _, _, _)
\* The two nested loops of Node::GenerateChildren from position (i, j) on;
\* list is *nodeList so far.  junk[k] is the indeterminate index of the
\* k-th node constructed.
GenLoop(list, thisAddr, i, j, lenH, lenV, heading, vspeed, dt, junk) ==
    IF i >= lenH THEN list
    ELSE IF j >= lenV
         THEN GenLoop(list, thisAddr, i + 1, 0, lenH, lenV, heading, vspeed, dt, junk)
         ELSE LET totalNodes == Len(list)
                  _child == Child(list[thisAddr], thisAddr, totalNodes,
                                  heading[i + 1], vspeed[j + 1], dt,
                                  junk[i * lenV + j + 1])
              IN  GenLoop(Append(list, _child), thisAddr, i, j + 1,
                          lenH, lenV, heading, vspeed, dt, junk)

RECURSIVE GenLoopV(_, _, _, _, _, _, _, _, _, _)
GenLoopV(list, thisAddr, i, j, lenH, lenV, heading, vspeed, dt, junk) ==
    IF j >= lenV THEN list
    ELSE IF i >= lenH
         THEN GenLoopV(list, thisAddr, 0, j + 1, lenH, lenV, heading, vspeed, dt, junk)
         ELSE LET totalNodes == Len(list)
                  _child == Child(list[thisAddr], thisAddr, totalNodes,
                                  heading[i + 1], vspeed[j + 1], dt,
                                  junk[j * lenH + i + 1])
              IN  GenLoopV(Append(list, _child), thisAddr, i + 1, j,
                           lenH, lenV, heading, vspeed, dt, junk)

GenerateChildren_vmajor(list, thisAddr, lenH, lenV, heading, vspeed, dt, junk) ==
    GenLoopV(list, thisAddr, 0, 0, lenH, lenV, heading, vspeed, dt, junk)

\* Node::GenerateChildren called on the element of *nodeList at thisAddr:
\* the list after the call.
GenerateChildren(list, thisAddr, lenH, lenV, heading, vspeed, dt, junk) ==
    GenLoop(list, thisAddr, 0, 0, lenH, lenV, heading, vspeed, dt, junk)

Less_le(A, B) == A.g + A.h <= B.g + B.h

\* Node::operator<
Less(A, B) ==
    LET val1 == A.g + A.h
        val2 == B.g + B.h
    IN  IF val1 < val2 THEN TRUE ELSE FALSE

(* ------------------------------ actions -------------------------------- *)

\* The cost fields are public and written by the search driver.
SetCost(node, gv, hv) == [node EXCEPT !.g = gv, !.h = hv]

\* The list holds the root, constructed with no parent; the driver has
\* assigned its costs and fixed the grids.
Init ==
    /\ config \in [heading : SeqsUpTo(HeadingOffsets, MaxLen),
                   vspeed : SeqsUpTo(VspeedOffsets, MaxLen),
                   dt : Dts]
    /\ \E junk \in Garbage, gv \in Costs, hv \in Costs :
         nodeList = <<SetCost(Node(NULL, 0, 0, 0, 0, 0, 1, 2, junk), gv, hv)>>
    /\ last = [op |-> "init"]

\* A run that only evaluates GoalCheck and operator<: empty grids.
InitPure ==
    /\ config = [heading |-> <<>>, vspeed |-> <<>>, dt |-> 1]
    /\ \E junk \in Garbage :
         nodeList = <<Node(NULL, 0, 0, 0, 0, 0, 1, 2, junk)>>
    /\ last = [op |-> "init"]

\* A run that links children: one vertical speed, costs not yet assigned.
InitFamily ==
    /\ config \in [heading : SeqsUpTo(HeadingOffsets, MaxLen),
                   vspeed : {<<v>> : v \in VspeedOffsets},
                   dt : Dts]
    /\ \E junk \in Garbage :
         nodeList = <<Node(NULL, 0, 0, 0, 0, 0, 1, 2, junk)>>
    /\ last = [op |-> "init"]

\* A call of AddChild on a list element with a copy of a list element.
CallAddChild ==
    \E p \in 1 .. Len(nodeList), q \in 1 .. Len(nodeList), undef \in BOOLEAN :
      LET r == AddChild(nodeList[p], nodeList[q], undef)
      IN  /\ nodeList' = [nodeList EXCEPT ![p] = r.node]
          /\ last' = [op |-> "AddChild", this |-> p, child |-> nodeList[q],
                      ret |-> r.ret, pre |-> nodeList]
          /\ UNCHANGED config

\* A call of GenerateChildren on a list element, the list holding at most
\* cap nodes afterwards.
Expand(cap) ==
    \E p \in 1 .. Len(nodeList) :
      LET lenH == Len(config.heading)
          lenV == Len(config.vspeed)
      IN  /\ Len(nodeList) + lenH * lenV <= cap
          /\ \E junk \in [1 .. lenH * lenV -> Garbage] :
               nodeList' = GenerateChildren(nodeList, p, lenH, lenV,
                                            config.heading, config.vspeed,
                                            config.dt, junk)
          /\ last' = [op |-> "GenerateChildren", this |-> p, pre |-> nodeList]
          /\ UNCHANGED config

CallGenerateChildren == Expand(MaxNodes)

CallGenerateChildrenFamily == Expand(MaxFamily)

\* A call of GoalCheck on a node with a goal node.
CallGoalCheck ==
    \E ax \in Coords, az \in Alts,
       gx \in GoalXs, gy \in GoalYs, gz \in Alts, junk \in Garbage :
      LET A == Node(NULL, 0, ax, 0, az, 0, 0, 0, junk)
          goal == Node(NULL, 0, gx, gy, gz, 0, 0, 0, junk)
      IN  /\ last' = [op |-> "GoalCheck", this |-> A, goal |-> goal,
                      ret |-> GoalCheck(A, goal)]
          /\ UNCHANGED <<nodeList, config>>

\* A comparison of two nodes, in both directions.
CallLess ==
    \E ga \in Costs, ha \in Costs, gb \in Costs, hb \in Costs,
       ia \in Garbage, ib \in Garbage, xa \in Coords :
      LET A == SetCost(Node(NULL, 0, xa, 0, 0, 0, 0, 0, ia), ga, ha)
          B == SetCost(Node(NULL, 0, 0, 0, 0, 0, 0, 0, ib), gb, hb)
      IN  /\ last' = [op |-> "Less", A |-> A, B |-> B,
                      ret |-> Less(A, B), rev |-> Less(B, A)]
          /\ UNCHANGED <<nodeList, config>>

Next == CallGenerateChildren

NextFamily ==
    \/ CallAddChild
    \/ CallGenerateChildrenFamily

NextPure ==
    \/ CallGoalCheck
    \/ CallLess

\* expansions of one run
Spec == Init /\ [][Next]_vars

\* child linking and expansions on a small list
SpecFamily == InitFamily /\ [][NextFamily]_vars

\* the goal test and the ordering on drawn nodes
SpecPure == InitPure /\ [][NextPure]_vars

(* ----------------------------- properties ------------------------------ *)

IsExpand == last.op = "GenerateChildren"
IsAdd == last.op = "AddChild"
lenH == Len(config.heading)
lenV == Len(config.vspeed)
\* positions of the nodes the last GenerateChildren call appended
Fresh == (Len(last.pre) + 1) .. Len(nodeList)
\* the candidate of the last AddChild call had the index of an existing child
AddWasDuplicate ==
    \E k \in 1 .. Len(last.pre[last.this].children) :
        last.pre[last.this].children[k].index = last.child.index

\* C1: AddChild returns false and leaves the children unchanged when a
\* child with the candidate's index exists; otherwise it appends the
\* candidate as the last child and returns true.
C1_AddChildContract ==
    IsAdd =>
      IF AddWasDuplicate
      THEN /\ last.ret = FALSE
           /\ nodeList[last.this].children = last.pre[last.this].children
      ELSE /\ last.ret = TRUE
           /\ nodeList[last.this].children =
                Append(last.pre[last.this].children, last.child)

\* C2: every stored node's index is the number of nodes that were in the
\* list when it was created, so indices are unique and in creation order.
C2_IndexIsCreationOrder ==
    \A k \in 1 .. Len(nodeList) : nodeList[k].index = k - 1

RECURSIVE NoDup(_)
\* no two children of node, at any depth of copies, have the same index
NoDup(node) ==
    /\ \A a, b \in 1 .. Len(node.children) :
         node.children[a].index = node.children[b].index => a = b
    /\ \A a \in 1 .. Len(node.children) : NoDup(node.children[a])

\* C3: no children collection holds two entries with the same index, and
\* an AddChild call with an index that is already present changes nothing.
C3_NoDuplicateChildren ==
    /\ \A k \in 1 .. Len(nodeList) : NoDup(nodeList[k])
    /\ (IsAdd /\ AddWasDuplicate) => nodeList = last.pre

C3_Witness ==
    /\ IsAdd /\ AddWasDuplicate
    /\ Len(nodeList) >= 2
    /\ Len(nodeList[last.this].children) = 2

\* C4: the vertical speed of every successor is the vertical-speed offset
\* of the pair it was generated from.
C4_VsFromOffset ==
    IsExpand =>
      \A k \in 1 .. lenH * lenV :
        nodeList[Len(last.pre) + k].vs = config.vspeed[((k - 1) % lenV) + 1]

\* C5: one GenerateChildren call appends exactly lenH*lenV successors, one
\* per pair in heading-major order (duplicate offsets included), and leaves
\* every node already in the list unchanged and in place; an empty grid
\* appends nothing.
C5_AppendsProduct ==
    IsExpand =>
      /\ Len(nodeList) = Len(last.pre) + lenH * lenV
      /\ SubSeq(nodeList, 1, Len(last.pre)) = last.pre
      /\ \A k \in 1 .. lenH * lenV :
           nodeList[Len(last.pre) + k].psi =
             last.pre[last.this].psi + config.heading[((k - 1) \div lenV) + 1]
      /\ (lenH = 0 \/ lenV = 0) => nodeList = last.pre

C5_Witness ==
    /\ IsExpand
    /\ lenH = 2 /\ lenV = 2
    /\ config.heading[1] # config.heading[2]
    /\ Len(nodeList) = Len(last.pre) + 4

\* C6: after an expansion the expanded node's children hold the index of
\* every successor generated from it.
C6_ParentRecordsSuccessors ==
    IsExpand =>
      \A k \in Fresh :
        \E c \in 1 .. Len(nodeList[last.this].children) :
          nodeList[last.this].children[c].index = nodeList[k].index

RECURSIVE ReachesRoot(_, _)
\* following parent references from position k ends at the root without
\* visiting a position twice
ReachesRoot(k, seen) ==
    IF k \in seen \/ k \notin 1 .. Len(nodeList) THEN FALSE
    ELSE IF nodeList[k].parent = NULL THEN k = 1
    ELSE ReachesRoot(nodeList[k].parent, seen \cup {k})

\* C7: every node stored by GenerateChildren refers to the expanded node as
\* its parent; every node but the root has a parent in the list, and the
\* parent references lead from every node to the root without a cycle.
C7_ParentChain ==
    /\ nodeList[1].parent = NULL
    /\ \A k \in 2 .. Len(nodeList) :
         /\ nodeList[k].parent \in 1 .. Len(nodeList)
         /\ ReachesRoot(k, {})
    /\ IsExpand => \A k \in Fresh : nodeList[k].parent = last.this

C7_Witness ==
    /\ IsExpand
    /\ last.this # 1
    /\ \E k \in Fresh : nodeList[nodeList[k].parent].parent = 1

\* C8: GoalCheck is true iff the distance in x and y from the node to the
\* goal is strictly less than the neighborhood, which is 5: at distance
\* exactly 5 it is false, whatever the two altitudes.
C8_GoalCheckStrict ==
    last.op = "GoalCheck" =>
      LET dx == last.this.x - last.goal.x
          dy == last.this.y - last.goal.y
      IN  /\ last.this.neighborhood = 5
          /\ last.ret <=> (dx * dx + dy * dy < 25)
          /\ (dx * dx + dy * dy = 25) => last.ret = FALSE

C8_Witness ==
    /\ last.op = "GoalCheck"
    /\ last.this.x = 1 /\ last.goal.x = 5 /\ last.goal.y = 3
    /\ last.this.z # last.goal.z
    /\ last.ret = FALSE

\* C9: every successor has g = 0 and h = 0 whatever the costs of the
\* expanded node, and the expanded node keeps its costs, position, heading,
\* vertical speed and speed.
C9_NoCostAccounting ==
    IsExpand =>
      /\ \A k \in Fresh : nodeList[k].g = 0 /\ nodeList[k].h = 0
      /\ LET a == nodeList[last.this]
             b == last.pre[last.this]
         IN  /\ a.g = b.g /\ a.h = b.h
             /\ a.x = b.x /\ a.y = b.y /\ a.z = b.z
             /\ a.psi = b.psi /\ a.vs = b.vs /\ a.speed = b.speed

C9_Witness ==
    /\ IsExpand
    /\ Fresh # {}
    /\ last.pre[last.this].g > 0 /\ last.pre[last.this].h > 0

\* C10: A < B iff A.g + A.h < B.g + B.h; so no node is before itself, two
\* nodes are never each before the other, and nodes of equal g + h are
\* neither before the other, whatever their index and state.
C10_OrderByCost ==
    last.op = "Less" =>
      LET fa == last.A.g + last.A.h
          fb == last.B.g + last.B.h
      IN  /\ last.ret <=> (fa < fb)
          /\ last.rev <=> (fb < fa)
          /\ ~(last.ret /\ last.rev)
          /\ (fa = fb) => (~last.ret /\ ~last.rev)
          /\ (last.A = last.B) => ~last.ret

C10_Witness ==
    /\ last.op = "Less"
    /\ last.A.g + last.A.h = last.B.g + last.B.h
    /\ last.A.g # last.B.g
    /\ last.A.index # last.B.index
    /\ ~last.ret /\ ~last.rev

====
